---- MODULE Spec2Model ----
(***************************************************************************)
(* Clinic outcomes dashboard: the data provider (ClinicReportsService),    *)
(* the chart lifecycle of AppComponent (period selection, response         *)
(* handling, deferred chart initialization, teardown) and the export flow. *)
(***************************************************************************)
EXTENDS Integers, Sequences, FiniteSets, TLC

(* ------------------------------ bounds --------------------------------- *)
\* number of loadClinicData calls (ngOnInit's included) in one behaviour
MaxLoads == 3
\* number of loadClinicData calls in a behaviour that starts from an
\* arbitrary subset of the canvases
MaxSurfaceLoads == 2
\* number of export triggers (onPrint) in one behaviour
MaxExports == 2

\* the draw areas tried are 0, 100, ... 100 * MaxAreaUnits pixels wide and high
MaxAreaUnits == 2

\* percentages are tried in steps of 100 / PctSteps
PctSteps == 4

(* ------------------------- program constants --------------------------- *)
\* AppComponent.periods
periods == {30, 60, 90}
\* a period value that is no key of fileMap
UnknownPeriod == 45
AllPeriods == periods \cup {UnknownPeriod}

\* the five canvas ids, in the order initializeCharts visits them
CanvasOrder ==
  << "timeInRangeVerticalStacked", "timeInRangeHorizontalScale",
     "timeInRangeHorizontal", "gmiPieChart", "gmiRanges" >>
Canvases == { CanvasOrder[i] : i \in 1..Len(CanvasOrder) }

\* the layouts of the hosting page the behaviours start from: every canvas
\* mounted, none mounted, and a page with the first and the fourth missing
SurfaceChoices ==
  { Canvases, {}, Canvases \ {"timeInRangeVerticalStacked", "gmiPieChart"} }

(* --------------------------- ClinicData -------------------------------- *)
\* `${period} days`
PeriodLabel(period) == ToString(period) \o " days"

\* the literal the component is constructed with (gmi.average in tenths)
InitialClinicData ==
  [ patientCount    |-> 120,
    reportingPeriod |-> "30 days",
    dateRange       |-> "01/01/2024 - 01/31/2024",
    lastUpdated     |-> "01/06/2024, 3:00 PM",
    timeInRange     |-> [ inRange |-> 82, aboveRange |-> 15, belowRange |-> 2 ],
    gmi             |-> [ average |-> 67,
                          distribution |-> [ optimal |-> 72, suboptimal |-> 23, poor |-> 5 ] ] ]

\* ClinicReportsService.getDefaultData
getDefaultData(period) ==
  [ patientCount    |-> 0,
    reportingPeriod |-> PeriodLabel(period),
    dateRange       |-> "No data available",
    lastUpdated     |-> "now",
    timeInRange     |-> [ inRange |-> 0, aboveRange |-> 0, belowRange |-> 0 ],
    gmi             |-> [ average |-> 0,
                          distribution |-> [ optimal |-> 0, suboptimal |-> 0, poor |-> 0 ] ] ]

\* the body a resource file holds for a period (the files are data, not
\* code: one representative body per period, told apart by its patientCount)
FileBody(period) ==
  [ patientCount    |-> 100 + period,
    reportingPeriod |-> PeriodLabel(period),
    dateRange       |-> "01/01/2024 - 01/31/2024",
    lastUpdated     |-> "01/06/2024, 3:00 PM",
    timeInRange     |-> [ inRange |-> 82, aboveRange |-> 15, belowRange |-> 2 ],
    gmi             |-> [ average |-> 67,
                          distribution |-> [ optimal |-> 72, suboptimal |-> 23, poor |-> 5 ] ] ]

\* fileMap: the keys that have a file path
fileMap == periods

\* what http.get(filePath) can yield: a body, or a failure
HttpOutcomes(period) ==
  { [ kind |-> "next", value |-> FileBody(period) ] }
    \cup { [ kind |-> "error", value |-> e ] : e \in {"transport", "parse"} }

\* map((data) => { return data; })
mapData(n) == n

\* catchError left out of the pipe: a failure reaches the subscriber as an error
catchErrorRethrows(n, period) == n

\* catchError(error => of(getDefaultData(period)))
catchError(n, period) ==
  IF n.kind = "error" THEN [ kind |-> "next", value |-> getDefaultData(period) ] ELSE n

\* the pipe without its catchError stage
pipeUncaught(n, period) == mapData(n)

\* the pipe of getClinicDataByPeriod applied to one http outcome
pipe(n, period) == catchError(mapData(n), period)

(* ----------------------------- state ----------------------------------- *)
VARIABLES
  phase,          \* "constructed", "live" (ngOnInit ran), "destroyed" (ngOnDestroy ran)
  selectedPeriod, \* AppComponent.selectedPeriod
  clinicData,     \* AppComponent.clinicData
  dataLoad,       \* which load's notification clinicData holds (0: the literal)
  charts,         \* AppComponent.charts: sequence of chart handles
  made,           \* every Chart constructed so far: handle -> canvas, config, destroy() calls
  requests,       \* HTTP requests issued and not yet answered: [load, period]
  timers,         \* pending 100 ms timeouts, FIFO; each entry is the load that set it
  surfaces,       \* canvas ids document.getElementById finds
  budget,         \* loadClinicData calls the behaviour still makes
  loads,          \* loadClinicData calls so far
  deliveries,     \* load -> number of notifications its subscriber has received
  lastDelivery,   \* the latest notification a subscriber received, and what the fetch yielded
  errorCalls,     \* invocations of the subscriber's error callback
  uncaught,       \* an exception has escaped a deferred initialization
  exportJobs,     \* one record per onPrint call
  drawn           \* the latest afterDraw: what it ran on and the canvas calls it made

vars == << phase, selectedPeriod, clinicData, dataLoad, charts, made, requests,
           timers, surfaces, budget, loads, deliveries, lastDelivery,
           errorCalls, uncaught, exportJobs, drawn >>

lifecycleVars == << phase, selectedPeriod, clinicData, dataLoad, charts, made, requests,
                    timers, surfaces, budget, loads, deliveries, lastDelivery,
                    errorCalls, uncaught >>

(* --------------------------- chart handles ----------------------------- *)
\* a handle is <<load whose timer built it, canvas id>>
Live(m) == { h \in DOMAIN m : m[h].destroys = 0 }

Range(seq) == { seq[i] : i \in 1..Len(seq) }

\* what destroy() leaves of a chart's configuration
Released == [ datasets |-> << >>, dataLoad |-> 0 ]

\* the destroy() loop left out
destroyNone(m, cs) == m

\* chart.destroy() for every element of a list
destroyAll(m, cs) ==
  [ h \in DOMAIN m |->
      IF h \in Range(cs)
      THEN [ m[h] EXCEPT !.destroys = IF @ < 2 THEN @ + 1 ELSE @, !.config = Released ]
      ELSE m[h] ]

\* a missing canvas raises instead of returning
createChartRaising(st, canvas, datasets, t) ==
  IF st.raised THEN st
  ELSE IF canvas \notin st.surfaces THEN [ st EXCEPT !.raised = TRUE ]
  ELSE LET h == << t, canvas >> IN
       [ st EXCEPT
           !.made = [ x \in DOMAIN st.made \cup {h} |->
                        IF x = h
                        THEN [ canvas |-> canvas, destroys |-> 0,
                               config |-> [ datasets |-> datasets, dataLoad |-> st.dataLoad ] ]
                        ELSE st.made[x] ],
           !.charts = Append(st.charts, h) ]

\* const ctx = document.getElementById(id); if (!ctx) return;
\* const chart = new Chart(ctx, config); this.charts.push(chart);
\* (new Chart is taken as the component uses it: it hands back a handle, also
\* for a canvas that already carries an undestroyed chart; st.raised carries an
\* exception out of the remaining create calls of initializeCharts)
createChart(st, canvas, datasets, t) ==
  IF st.raised THEN st
  ELSE IF canvas \notin st.surfaces THEN st
  ELSE LET h == << t, canvas >> IN
       [ st EXCEPT
           !.made = [ x \in DOMAIN st.made \cup {h} |->
                        IF x = h
                        THEN [ canvas |-> canvas, destroys |-> 0,
                               config |-> [ datasets |-> datasets, dataLoad |-> st.dataLoad ] ]
                        ELSE st.made[x] ],
           !.charts = Append(st.charts, h) ]

createVerticalStackedChart(st, t) ==
  createChart(st, "timeInRangeVerticalStacked",
              << st.clinicData.timeInRange.belowRange, st.clinicData.timeInRange.inRange,
                 st.clinicData.timeInRange.aboveRange, 1 >>, t)

createHorizontalScaleChart(st, t) ==
  createChart(st, "timeInRangeHorizontalScale", << 14, 16, 110, 60, 160 >>, t)

createHorizontalBarChart(st, t) ==
  createChart(st, "timeInRangeHorizontal",
              << st.clinicData.timeInRange.belowRange, st.clinicData.timeInRange.inRange,
                 st.clinicData.timeInRange.aboveRange >>, t)

\* the pie chart built on the canvas of the ranges chart
createPieChartOnRangesCanvas(st, t) ==
  createChart(st, "gmiRanges",
              << st.clinicData.gmi.distribution.optimal, st.clinicData.gmi.distribution.suboptimal,
                 st.clinicData.gmi.distribution.poor >>, t)

createPieChart(st, t) ==
  createChart(st, "gmiPieChart",
              << st.clinicData.gmi.distribution.optimal, st.clinicData.gmi.distribution.suboptimal,
                 st.clinicData.gmi.distribution.poor >>, t)

createGmiRangesChart(st, t) ==
  createChart(st, "gmiRanges",
              << st.clinicData.gmi.distribution.optimal, st.clinicData.gmi.distribution.suboptimal,
                 st.clinicData.gmi.distribution.poor >>, t)

\* the five create calls in order, each applied to what the one before left
\* (every intermediate state is bound as a value, so it is computed once)
initializeCharts(st, t) ==
  CHOOSE s5 \in
    { createGmiRangesChart(s4, t) : s4 \in
      { createPieChart(s3, t) : s3 \in
        { createHorizontalBarChart(s2, t) : s2 \in
          { createHorizontalScaleChart(s1, t) : s1 \in
            { createVerticalStackedChart(s0, t) : s0 \in {st} } } } } } : TRUE

(* ------------------------------ numbers -------------------------------- *)
\* A JavaScript number is kept exactly, as a fraction n/d in lowest terms with
\* d > 0.  d = 0 holds the values that are not finite: 0/0 is NaN, 1/0 and -1/0
\* are the infinities.  The rounding of doubles is left out: a finite result is
\* the exact one.
RECURSIVE GCD(_, _)
GCD(a, b) == IF b = 0 THEN a ELSE GCD(b, a % b)

Abs(i) == IF i < 0 THEN -i ELSE i

Sign(i) == IF i < 0 THEN -1 ELSE IF i > 0 THEN 1 ELSE 0

Frac(n, d) ==
  IF d = 0 THEN [ n |-> Sign(n), d |-> 0 ]
  ELSE LET g == GCD(Abs(n), Abs(d)) IN
       [ n |-> Sign(d) * Sign(n) * (Abs(n) \div g), d |-> Abs(d) \div g ]

Num(i) == [ n |-> i, d |-> 1 ]

NaN == [ n |-> 0, d |-> 0 ]

IsFinite(a) == a.d # 0

\* a + b
Plus(a, b) ==
  IF a.d = 0 /\ b.d = 0 THEN (IF a.n = b.n THEN a ELSE NaN)
  ELSE IF a.d = 0 THEN a
  ELSE IF b.d = 0 THEN b
  ELSE Frac(a.n * b.d + b.n * a.d, a.d * b.d)

\* a - b
Minus(a, b) == Plus(a, [ n |-> -b.n, d |-> b.d ])

\* a * b
Times(a, b) == Frac(a.n * b.n, a.d * b.d)

\* a / b
Over(a, b) == Frac(a.n * b.d, a.d * b.n)

\* a <= b, for finite a and b
AtMost(a, b) == a.n * b.d <= b.n * a.d

\* number + '%', number.toString(): whole numbers print in decimal
toString(v) == IF v < 0 THEN "-" \o ToString(-v) ELSE ToString(v)

(* ---------------------------- canvas calls ----------------------------- *)
\* A coordinate is at + trig(angle * pi) * radius; cos and sin are kept as
\* symbols, of an angle counted in units of pi.  Math.cos and Math.sin of a
\* value that is not finite are NaN, and NaN absorbs the sum and the product.
Plain(a) == [ at |-> a, trig |-> "none", angle |-> Num(0), radius |-> Num(0) ]

Polar(c, f, angle, radius) ==
  IF IsFinite(angle) /\ IsFinite(c) /\ IsFinite(radius)
  THEN [ at |-> c, trig |-> f, angle |-> angle, radius |-> radius ]
  ELSE Plain(NaN)

\* one call on the 2d context that takes coordinates
fillText(text, x, y) == [ call |-> "fillText", text |-> text, x |-> x, y |-> y ]

moveTo(x, y) == [ call |-> "moveTo", text |-> "", x |-> x, y |-> y ]

lineTo(x, y) == [ call |-> "lineTo", text |-> "", x |-> x, y |-> y ]

arc(x, y) == [ call |-> "arc", text |-> "", x |-> x, y |-> y ]

\* the geometry Chart.js hands to a plugin: the canvas size, the draw area
\* inside it and the first bar of dataset 0; k scales the draw area
Geometry(k) ==
  [ width |-> Num(40 + 100 * k), height |-> Num(30 + 100 * k),
    chartArea |-> [ left |-> Num(25), top |-> Num(10),
                    right |-> Num(25 + 100 * k), bottom |-> Num(10 + 100 * k),
                    width |-> Num(100 * k), height |-> Num(100 * k) ],
    bar |-> [ x |-> Num(25 + 50 * k), width |-> Num(45 * k) ] ]

(* ---------------------------- label layouts ---------------------------- *)
\* height taken without the division by 100
segmentHeightUnscaled(value, total) == Times(Num(value), total)

\* (value / 100) * total
segmentHeight(value, total) == Times(Over(Num(value), Num(100)), total)

\* the aboveRange label put at the middle of its span
verticalAfterDrawCentred(timeInRange, g) ==
  LET chartArea == g.chartArea
      x == Plus(Plus(g.bar.x, Over(g.bar.width, Num(2))), Num(30))
      belowHeight == segmentHeight(timeInRange.belowRange, chartArea.height)
      inRangeHeight == segmentHeight(timeInRange.inRange, chartArea.height)
      aboveHeight == segmentHeight(timeInRange.aboveRange, chartArea.height)
  IN [ heights |-> << belowHeight, inRangeHeight, aboveHeight >>,
       ops |-> <<
         fillText("2%", Plain(x),
                  Plain(Minus(chartArea.bottom, Over(belowHeight, Num(2))))),
         fillText("82%", Plain(x),
                  Plain(Minus(Minus(chartArea.bottom, belowHeight),
                              Over(inRangeHeight, Num(2))))),
         fillText("1%", Plain(x), Plain(Plus(chartArea.top, Num(15)))),
         fillText("15%", Plain(x),
                  Plain(Minus(Minus(Minus(chartArea.bottom, belowHeight), inRangeHeight),
                              Over(aboveHeight, Num(2))))) >> ]

\* afterDraw of the vertical stacked chart, reading this.clinicData.timeInRange;
\* heights are its three local heights, ops its fillText calls in order
verticalAfterDraw(timeInRange, g) ==
  LET chartArea == g.chartArea
      barWidth == g.bar.width
      x == Plus(Plus(g.bar.x, Over(barWidth, Num(2))), Num(30))
      total == chartArea.height
      belowHeight == segmentHeight(timeInRange.belowRange, total)
      inRangeHeight == segmentHeight(timeInRange.inRange, total)
      aboveHeight == segmentHeight(timeInRange.aboveRange, total)
  IN [ heights |-> << belowHeight, inRangeHeight, aboveHeight >>,
       ops |-> <<
         fillText("2%", Plain(x),
                  Plain(Minus(chartArea.bottom, Over(belowHeight, Num(2))))),
         fillText("82%", Plain(x),
                  Plain(Minus(Minus(chartArea.bottom, belowHeight),
                              Over(inRangeHeight, Num(2))))),
         fillText("1%", Plain(x), Plain(Plus(chartArea.top, Num(15)))),
         fillText("15%", Plain(x),
                  Plain(Minus(Minus(Minus(chartArea.bottom, belowHeight), inRangeHeight),
                              Times(aboveHeight, Frac(3, 10))))) >> ]

\* the older copy with the veryHigh label put on the bottom line
verticalAfterDrawLegacyUnpinned(timeInRange, g) ==
  LET chartArea == g.chartArea
      x == Plus(Plus(g.bar.x, Over(g.bar.width, Num(2))), Num(20))
      belowHeight == segmentHeight(timeInRange.belowRange, chartArea.height)
      inRangeHeight == segmentHeight(timeInRange.inRange, chartArea.height)
      aboveHeight == segmentHeight(timeInRange.aboveRange, chartArea.height)
  IN [ heights |-> << belowHeight, inRangeHeight, aboveHeight >>,
       ops |-> <<
         fillText("2%", Plain(x),
                  Plain(Minus(chartArea.bottom, Over(belowHeight, Num(2))))),
         fillText("82%", Plain(x),
                  Plain(Minus(Minus(chartArea.bottom, belowHeight),
                              Over(inRangeHeight, Num(2))))),
         fillText("15%", Plain(x),
                  Plain(Minus(Minus(Minus(chartArea.bottom, belowHeight), inRangeHeight),
                              Over(aboveHeight, Num(3))))),
         fillText("1%", Plain(x), Plain(chartArea.bottom)) >> ]

\* afterDraw of the vertical stacked chart in the older copy of the component
verticalAfterDrawLegacy(timeInRange, g) ==
  LET chartArea == g.chartArea
      barWidth == g.bar.width
      x == Plus(Plus(g.bar.x, Over(barWidth, Num(2))), Num(20))
      total == chartArea.height
      belowHeight == segmentHeight(timeInRange.belowRange, total)
      inRangeHeight == segmentHeight(timeInRange.inRange, total)
      aboveHeight == segmentHeight(timeInRange.aboveRange, total)
  IN [ heights |-> << belowHeight, inRangeHeight, aboveHeight >>,
       ops |-> <<
         fillText("2%", Plain(x),
                  Plain(Minus(chartArea.bottom, Over(belowHeight, Num(2))))),
         fillText("82%", Plain(x),
                  Plain(Minus(Minus(chartArea.bottom, belowHeight),
                              Over(inRangeHeight, Num(2))))),
         fillText("15%", Plain(x),
                  Plain(Minus(Minus(Minus(chartArea.bottom, belowHeight), inRangeHeight),
                              Over(aboveHeight, Num(3))))),
         fillText("1%", Plain(x), Plain(Plus(chartArea.top, Num(25)))) >> ]

\* x.max of the scale chart
scaleAxisMax == 360

\* the ticks of the older copy of the component: evenly spaced
rangesEven ==
  << [ value |-> 40, position |-> Num(0) ],
     [ value |-> 54, position |-> Frac(1, 5) ],
     [ value |-> 70, position |-> Frac(2, 5) ],
     [ value |-> 180, position |-> Frac(3, 5) ],
     [ value |-> 240, position |-> Frac(4, 5) ],
     [ value |-> 400, position |-> Num(1) ] >>

\* const ranges = [...]
ranges ==
  << [ value |-> 40, position |-> Num(0) ],
     [ value |-> 54, position |-> Over(Num(14), Num(360)) ],
     [ value |-> 70, position |-> Over(Num(30), Num(360)) ],
     [ value |-> 180, position |-> Over(Num(140), Num(360)) ],
     [ value |-> 240, position |-> Over(Num(200), Num(360)) ],
     [ value |-> 400, position |-> Num(1) ] >>

\* const dividerLines = [...]
dividerLines ==
  << [ position |-> Over(Num(14), Num(360)) ],
     [ position |-> Over(Num(140), Num(360)) ],
     [ position |-> Num(1) ] >>

\* afterDraw of the scale chart: the six tick labels, the three divider lines
\* and the unit label
scaleAfterDraw(g) ==
  LET chartArea == g.chartArea
      totalWidth == Minus(chartArea.right, chartArea.left)
      tick(range) ==
        fillText(toString(range.value),
                 Plain(Plus(chartArea.left, Times(totalWidth, range.position))),
                 Plain(Minus(chartArea.top, Num(8))))
      lineX(line) == Plain(Plus(chartArea.left, Times(totalWidth, line.position)))
  IN [ heights |-> << >>,
       ops |-> [ i \in 1..Len(ranges) |-> tick(ranges[i]) ]
               \o << moveTo(lineX(dividerLines[1]), Plain(chartArea.top)),
                     lineTo(lineX(dividerLines[1]), Plain(chartArea.bottom)),
                     moveTo(lineX(dividerLines[2]), Plain(chartArea.top)),
                     lineTo(lineX(dividerLines[2]), Plain(chartArea.bottom)),
                     moveTo(lineX(dividerLines[3]), Plain(chartArea.top)),
                     lineTo(lineX(dividerLines[3]), Plain(chartArea.bottom)) >>
               \o << fillText("mg/dL",
                              Plain(Plus(chartArea.left, Over(totalWidth, Num(2)))),
                              Plain(Minus(chartArea.top, Num(25)))) >> ]

\* the labels of the older copy of the component: fixed texts
segmentLabelFixed(data, index) ==
  IF index = 0 THEN "72%" ELSE IF index = 1 THEN "23%" ELSE "5%"

\* label: data[index] + '%'
segmentLabel(data, index) == toString(data[index + 1]) \o "%"

\* a start angle kept from the draw before
startAngleCarried == IF drawn.plugin = "pie" THEN drawn.angle ELSE Frac(1, 3)

\* let currentAngle = -Math.PI / 2 + (150 * Math.PI / 180), in units of pi
startAngle == Plus(Over(Num(-1), Num(2)), Over(Num(150), Num(180)))

\* the body of segments.forEach for one segment
pieSegment(data, index, total, currentAngle, g) ==
  LET centerX == Over(g.width, Num(2))
      centerY == Over(g.height, Num(2))
      radius == Num(60)
      value == data[index + 1]
      segmentAngle == Times(Over(Num(value), total), Num(2))
      labelAngle == Plus(currentAngle, Over(segmentAngle, Num(2)))
      innerX == Polar(centerX, "cos", labelAngle, radius)
      innerY == Polar(centerY, "sin", labelAngle, radius)
      labelX == IF index = 0 THEN Minus(centerX, Num(140))
                ELSE IF index = 1 THEN Plus(centerX, Num(130))
                ELSE Plus(centerX, Num(110))
      labelY == IF index = 0 THEN Minus(centerY, Num(10))
                ELSE IF index = 1 THEN Plus(centerY, Num(20))
                ELSE Plus(centerY, Num(90))
      midRadius == IF index = 1 THEN Plus(radius, Num(30)) ELSE Plus(radius, Num(25))
      midX1 == Polar(centerX, "cos", labelAngle, midRadius)
      midY1 == Polar(centerY, "sin", labelAngle, midRadius)
      midX2 == IF index = 0 THEN Minus(centerX, Num(110))
               ELSE IF index = 1 THEN Plus(centerX, Num(100))
               ELSE Plus(centerX, Num(80))
      midY2 == IF index = 0 THEN Minus(centerY, Num(10))
               ELSE IF index = 1 THEN Plus(centerY, Num(20))
               ELSE Plus(centerY, Num(75))
      anchorX == Plain(labelX)
      anchorY == Plain(Minus(labelY, Num(5)))
  IN [ segmentAngle |-> segmentAngle,
       ops |-> << moveTo(innerX, innerY),
                  lineTo(midX1, midY1),
                  lineTo(Plain(midX2), Plain(midY2)),
                  lineTo(anchorX, anchorY),
                  lineTo(anchorX, anchorY),
                  arc(anchorX, anchorY),
                  fillText(segmentLabel(data, index), anchorX, anchorY) >> ]

\* afterDraw of the pie chart, reading chart.data.datasets[0].data; angle is
\* currentAngle after the last segment
pieAfterDraw(data, g) ==
  LET total == Num(data[1] + data[2] + data[3])
      s0 == pieSegment(data, 0, total, startAngle, g)
      a1 == Plus(startAngle, s0.segmentAngle)
      s1 == pieSegment(data, 1, total, a1, g)
      a2 == Plus(a1, s1.segmentAngle)
      s2 == pieSegment(data, 2, total, a2, g)
  IN [ heights |-> << >>, ops |-> s0.ops \o s1.ops \o s2.ops,
       angle |-> Plus(a2, s2.segmentAngle) ]

(* ------------------------------ Init ----------------------------------- *)
\* no afterDraw has run yet
NoDraw ==
  [ plugin |-> "none", chart |-> << 0, "" >>, geometry |-> 0, read |-> 0,
    data |-> << >>, again |-> FALSE, heights |-> << >>, ops |-> << >>,
    angle |-> Num(0) ]

NoDelivery ==
  [ load |-> 0, period |-> 0, fetch |-> "none", kind |-> "none", value |-> "none" ]

Init ==
  /\ phase = "constructed"
  /\ selectedPeriod = 30
  /\ clinicData = InitialClinicData
  /\ dataLoad = 0
  /\ charts = << >>
  /\ made = << >>
  /\ requests = {}
  /\ timers = << >>
  /\ surfaces \in SurfaceChoices
  /\ budget = MaxLoads
  /\ loads = 0
  /\ deliveries = << >>
  /\ lastDelivery = NoDelivery
  /\ errorCalls = 0
  /\ uncaught = FALSE
  /\ exportJobs = << >>
  /\ drawn = NoDraw

\* the same component on a page that holds any subset of the five canvases
InitSurfaces ==
  /\ phase = "constructed"
  /\ selectedPeriod = 30
  /\ clinicData = InitialClinicData
  /\ dataLoad = 0
  /\ charts = << >>
  /\ made = << >>
  /\ requests = {}
  /\ timers = << >>
  /\ surfaces \in SUBSET Canvases
  /\ budget = MaxSurfaceLoads
  /\ loads = 0
  /\ deliveries = << >>
  /\ lastDelivery = NoDelivery
  /\ errorCalls = 0
  /\ uncaught = FALSE
  /\ exportJobs = << >>
  /\ drawn = NoDraw

(* ------------------------ ClinicReportsService ------------------------- *)
\* the !filePath early return left out
getClinicDataByPeriodAlwaysFetches(period) ==
  [ http |-> TRUE, emits |-> [ kind |-> "none", value |-> "none" ] ]

\* getClinicDataByPeriod: either an observable that emits at once (of(...)),
\* or one backed by an HTTP request whose outcome goes through the pipe
getClinicDataByPeriod(period) ==
  IF period \notin fileMap
  THEN [ http |-> FALSE, emits |-> [ kind |-> "next", value |-> getDefaultData(period) ] ]
  ELSE [ http |-> TRUE, emits |-> [ kind |-> "none", value |-> "none" ] ]

(* --------------------------- loadClinicData ---------------------------- *)
\* the next callback building the charts at once instead of in a timeout
nextCallbackEager(data, l) ==
  LET st == initializeCharts([ surfaces |-> surfaces, clinicData |-> data, dataLoad |-> l,
                               made |-> destroyAll(made, charts), charts |-> << >>,
                               raised |-> FALSE ], l)
  IN /\ clinicData' = data
     /\ dataLoad' = l
     /\ made' = st.made
     /\ charts' = st.charts
     /\ timers' = timers
     /\ UNCHANGED errorCalls

\* the subscriber's next callback
nextCallback(data, l) ==
  /\ clinicData' = data
  /\ dataLoad' = l
  /\ made' = destroyAll(made, charts)
  /\ charts' = << >>
  /\ timers' = Append(timers, l)
  /\ UNCHANGED errorCalls

\* the subscriber's error callback
errorCallback(period) ==
  /\ clinicData' = [ clinicData EXCEPT !.reportingPeriod = PeriodLabel(period) ]
  /\ errorCalls' = errorCalls + 1
  /\ UNCHANGED << dataLoad, made, charts, timers >>

\* one notification reaching the subscriber of load l; fetch says what became
\* of the HTTP request: "ok", "failed", or "none" when no request was made
subscriber(n, period, l, fetch) ==
  /\ lastDelivery' = [ load |-> l, period |-> period, fetch |-> fetch,
                       kind |-> n.kind, value |-> n.value ]
  /\ IF n.kind = "next" THEN nextCallback(n.value, l) ELSE errorCallback(period)

\* a load that drops the requests still in flight (switchMap-like)
loadClinicDataSwitching(period) ==
  /\ budget > 0
  /\ budget' = budget - 1
  /\ loads' = loads + 1
  /\ LET obs == getClinicDataByPeriod(period) IN
     IF obs.http
     THEN /\ requests' = { [ load |-> loads + 1, period |-> period ] }
          /\ deliveries' = Append(deliveries, 0)
          /\ UNCHANGED << clinicData, dataLoad, made, charts, timers, lastDelivery, errorCalls >>
     ELSE /\ subscriber(obs.emits, period, loads + 1, "none")
          /\ deliveries' = Append(deliveries, 1)
          /\ requests' = {}

\* getClinicDataByPeriod(period).subscribe({next, error})
loadClinicData(period) ==
  /\ budget > 0
  /\ budget' = budget - 1
  /\ loads' = loads + 1
  /\ LET obs == getClinicDataByPeriod(period) IN
     IF obs.http
     THEN /\ requests' = requests \cup { [ load |-> loads + 1, period |-> period ] }
          /\ deliveries' = Append(deliveries, 0)
          /\ UNCHANGED << clinicData, dataLoad, made, charts, timers, lastDelivery, errorCalls >>
     ELSE /\ subscriber(obs.emits, period, loads + 1, "none")
          /\ deliveries' = Append(deliveries, 1)
          /\ UNCHANGED requests

ngOnInit ==
  /\ phase = "constructed"
  /\ phase' = "live"
  /\ loadClinicData(selectedPeriod)
  /\ UNCHANGED << selectedPeriod, surfaces, uncaught, exportJobs, drawn >>

onPeriodChange(period) ==
  /\ phase = "live"
  /\ selectedPeriod' = period
  /\ loadClinicData(period)
  /\ UNCHANGED << phase, surfaces, uncaught, exportJobs, drawn >>

\* the subscriber attached to http.get itself, with no pipe in between
ResponseUnpiped(r, o) ==
  /\ r \in requests
  /\ requests' = requests \ {r}
  /\ deliveries' = [ deliveries EXCEPT ![r.load] = @ + 1 ]
  /\ subscriber(o, r.period, r.load, IF o.kind = "next" THEN "ok" ELSE "failed")
  /\ UNCHANGED << phase, selectedPeriod, surfaces, budget, loads, uncaught, exportJobs, drawn >>

\* the HTTP response (or failure) of a request in flight comes through the pipe
Response(r, o) ==
  /\ r \in requests
  /\ requests' = requests \ {r}
  /\ deliveries' = [ deliveries EXCEPT ![r.load] = @ + 1 ]
  /\ subscriber(pipe(o, r.period), r.period, r.load,
                IF o.kind = "next" THEN "ok" ELSE "failed")
  /\ UNCHANGED << phase, selectedPeriod, surfaces, budget, loads, uncaught, exportJobs, drawn >>

\* the oldest 100 ms timeout fires: initializeCharts()
TimerFires ==
  /\ timers # << >>
  /\ LET st == initializeCharts([ surfaces |-> surfaces, clinicData |-> clinicData,
                                  dataLoad |-> dataLoad, made |-> made, charts |-> charts,
                                  raised |-> FALSE ],
                                Head(timers))
     IN /\ made' = st.made
        /\ charts' = st.charts
        /\ uncaught' = (uncaught \/ st.raised)
  /\ timers' = Tail(timers)
  /\ UNCHANGED << phase, selectedPeriod, clinicData, dataLoad, requests, surfaces,
                  budget, loads, deliveries, lastDelivery, errorCalls,
                  exportJobs, drawn >>

ngOnDestroy ==
  /\ phase = "live"
  /\ phase' = "destroyed"
  /\ made' = destroyAll(made, charts)
  /\ UNCHANGED << selectedPeriod, clinicData, dataLoad, charts, requests, timers,
                  surfaces, budget, loads, deliveries, lastDelivery,
                  errorCalls, uncaught, exportJobs, drawn >>

\* after teardown the framework may take the component's view out of the document
ViewRemoved ==
  /\ phase = "destroyed"
  /\ surfaces # {}
  /\ surfaces' = {}
  /\ UNCHANGED << phase, selectedPeriod, clinicData, dataLoad, charts, made, requests,
                  timers, budget, loads, deliveries, lastDelivery,
                  errorCalls, uncaught, exportJobs, drawn >>

(* ------------------------------ export --------------------------------- *)
\* what the browser can do when fallbackScreenshot runs: getContext('2d')
\* returns null, a call inside the try block throws, or toBlob is reached
FallbackEnv == {"noContext", "throws", "toBlob"}
\* what calling html2canvas can do: the global is undefined, the call throws,
\* or it returns a promise
PrimaryEnv == {"undefined", "throws", "promise"}
\* how the html2canvas promise settles: it rejects, it resolves and
\* canvas.toBlob throws inside the then-callback, or it resolves and toBlob is reached
PromiseEnv == {"reject", "toBlobThrows", "resolve"}

NewJob(variant) ==
  [ variant |-> variant, pc |-> "timer", outcome |-> "none",
    primaryFailed |-> FALSE, fallbackRan |-> FALSE, printed |-> FALSE ]

\* downloadImage(blob)
downloadImage(job) == [ job EXCEPT !.pc = "done", !.outcome = "download" ]

\* fallbackScreenshot()
fallbackScreenshot(job, fb) ==
  LET j == [ job EXCEPT !.fallbackRan = TRUE ] IN
  CASE fb = "noContext" -> [ j EXCEPT !.pc = "done", !.outcome = "silent" ]
    [] fb = "throws"    -> [ j EXCEPT !.pc = "done", !.outcome = "alert" ]
    [] OTHER            -> [ j EXCEPT !.pc = "fallbackBlob" ]

\* captureScreenshot() of the current component: elem says whether
\* document.querySelector('.clinic-outcomes-app') finds the dashboard
captureScreenshot(job, elem, h2c, fb) ==
  IF ~elem THEN fallbackScreenshot([ job EXCEPT !.primaryFailed = TRUE ], fb)
  ELSE IF h2c = "promise" THEN [ job EXCEPT !.pc = "html2canvas" ]
  ELSE fallbackScreenshot([ job EXCEPT !.primaryFailed = TRUE ], fb)

\* captureScreenshot() of src/app/app.component.ts: html2canvas(document.body)
captureScreenshotLegacy(job, h2c, fb) ==
  IF h2c = "promise" THEN [ job EXCEPT !.pc = "html2canvas" ]
  ELSE fallbackScreenshot([ job EXCEPT !.primaryFailed = TRUE ], fb)

\* the then- and catch-callbacks of the html2canvas promise
html2canvasSettled(job, res, fb) ==
  IF res = "resolve" THEN [ job EXCEPT !.pc = "primaryBlob" ]
  ELSE fallbackScreenshot([ job EXCEPT !.primaryFailed = TRUE ], fb)

\* the toBlob callback of the html2canvas canvas
primaryBlobCallback(job, blob, fb) ==
  IF blob THEN downloadImage(job)
  ELSE IF job.variant = "current"
       THEN fallbackScreenshot([ job EXCEPT !.primaryFailed = TRUE ], fb)
       ELSE [ job EXCEPT !.pc = "done", !.outcome = "silent", !.primaryFailed = TRUE ]

\* the toBlob callback of the fallback canvas
fallbackBlobCallback(job, blob) ==
  IF blob THEN downloadImage(job)
  ELSE [ job EXCEPT !.pc = "done", !.outcome = "silent" ]

\* onPrint() of the current component: captureScreenshot after 1000 ms
onPrint ==
  /\ phase = "live"
  /\ Len(exportJobs) < MaxExports
  /\ exportJobs' = Append(exportJobs, NewJob("current"))
  /\ UNCHANGED << lifecycleVars, drawn >>

\* onPrint() of src/app/app.component.ts: captureScreenshot(); window.print()
onPrintLegacy(h2c, fb) ==
  /\ phase = "live"
  /\ Len(exportJobs) < MaxExports
  /\ exportJobs' = Append(exportJobs,
                          [ captureScreenshotLegacy(NewJob("legacy"), h2c, fb)
                              EXCEPT !.printed = TRUE ])
  /\ UNCHANGED << lifecycleVars, drawn >>

ExportTimerFires(i, elem, h2c, fb) ==
  /\ exportJobs[i].pc = "timer"
  /\ exportJobs' = [ exportJobs EXCEPT ![i] = captureScreenshot(@, elem, h2c, fb) ]
  /\ UNCHANGED << lifecycleVars, drawn >>

Html2canvasSettles(i, res, fb) ==
  /\ exportJobs[i].pc = "html2canvas"
  /\ exportJobs' = [ exportJobs EXCEPT ![i] = html2canvasSettled(@, res, fb) ]
  /\ UNCHANGED << lifecycleVars, drawn >>

PrimaryBlob(i, blob, fb) ==
  /\ exportJobs[i].pc = "primaryBlob"
  /\ exportJobs' = [ exportJobs EXCEPT ![i] = primaryBlobCallback(@, blob, fb) ]
  /\ UNCHANGED << lifecycleVars, drawn >>

FallbackBlob(i, blob) ==
  /\ exportJobs[i].pc = "fallbackBlob"
  /\ exportJobs' = [ exportJobs EXCEPT ![i] = fallbackBlobCallback(@, blob) ]
  /\ UNCHANGED << lifecycleVars, drawn >>

(* ------------------------------- redraws ------------------------------- *)
\* Chart.js draws a live chart (first render, resize, hover) and then runs the
\* chart's afterDraw plugin; the plugins assign nothing of the component
Draw(plugin, h, k, read, data, layout, angle) ==
  /\ drawn' = [ plugin |-> plugin, chart |-> h, geometry |-> k, read |-> read,
                data |-> data,
                again |-> /\ drawn.plugin = plugin /\ drawn.chart = h
                          /\ drawn.geometry = k /\ drawn.read = read,
                heights |-> layout.heights, ops |-> layout.ops, angle |-> angle ]
  /\ UNCHANGED << lifecycleVars, exportJobs >>

\* the three values of this.clinicData.timeInRange, bottom segment first
timeInRangeData ==
  << clinicData.timeInRange.belowRange, clinicData.timeInRange.inRange,
     clinicData.timeInRange.aboveRange >>

DrawVertical(h, k) ==
  /\ h \in Live(made) /\ made[h].canvas = "timeInRangeVerticalStacked"
  /\ Draw("vertical", h, k, dataLoad, timeInRangeData,
          verticalAfterDraw(clinicData.timeInRange, Geometry(k)), Num(0))

DrawVerticalLegacy(h, k) ==
  /\ h \in Live(made) /\ made[h].canvas = "timeInRangeVerticalStacked"
  /\ Draw("verticalLegacy", h, k, dataLoad, timeInRangeData,
          verticalAfterDrawLegacy(clinicData.timeInRange, Geometry(k)), Num(0))

DrawScale(h, k) ==
  /\ h \in Live(made) /\ made[h].canvas = "timeInRangeHorizontalScale"
  /\ Draw("scale", h, k, made[h].config.dataLoad, made[h].config.datasets,
          scaleAfterDraw(Geometry(k)), Num(0))

DrawPie(h, k) ==
  /\ h \in Live(made) /\ made[h].canvas = "gmiPieChart"
  /\ LET layout == pieAfterDraw(made[h].config.datasets, Geometry(k))
     IN Draw("pie", h, k, made[h].config.dataLoad, made[h].config.datasets,
             layout, layout.angle)

NextExport ==
  \/ ngOnInit
  \/ onPrint
  \/ \E h2c \in PrimaryEnv, fb \in FallbackEnv : onPrintLegacy(h2c, fb)
  \/ \E i \in DOMAIN exportJobs, elem \in BOOLEAN, h2c \in PrimaryEnv, fb \in FallbackEnv :
       ExportTimerFires(i, elem, h2c, fb)
  \/ \E i \in DOMAIN exportJobs, res \in PromiseEnv, fb \in FallbackEnv :
       Html2canvasSettles(i, res, fb)
  \/ \E i \in DOMAIN exportJobs, blob \in BOOLEAN, fb \in FallbackEnv : PrimaryBlob(i, blob, fb)
  \/ \E i \in DOMAIN exportJobs, blob \in BOOLEAN : FallbackBlob(i, blob)

Next ==
  \/ ngOnInit
  \/ \E p \in AllPeriods : onPeriodChange(p)
  \/ \E r \in requests : \E o \in HttpOutcomes(r.period) : Response(r, o)
  \/ TimerFires
  \/ ngOnDestroy
  \/ ViewRemoved

Spec == Init /\ [][Next]_vars

SpecSurfaces == InitSurfaces /\ [][Next]_vars

SpecExport == Init /\ [][NextExport]_vars

\* some request in flight is answered
Responds == \E r \in requests : \E o \in HttpOutcomes(r.period) : Response(r, o)

\* the component is never torn down
NextLive ==
  \/ ngOnInit
  \/ \E p \in AllPeriods : onPeriodChange(p)
  \/ Responds
  \/ TimerFires

\* HttpClient settles every request (a response, or a failure at the latest
\* when the browser gives the request up), and the event loop runs every
\* timeout that was set; the user may stop selecting periods at any point
SpecLive ==
  Init /\ [][NextLive]_vars /\ WF_vars(Responds) /\ WF_vars(TimerFires)

\* percentage triples in steps of 100 / PctSteps that sum to 100
PctTriples ==
  { << (100 * i) \div PctSteps, (100 * j) \div PctSteps,
       100 - ((100 * i) \div PctSteps) - ((100 * j) \div PctSteps) >> :
      i \in 0..PctSteps, j \in 0..PctSteps } \cap (Nat \X Nat \X Nat)

\* bodies a resource file can hold: the representative one with its
\* time-in-range or its GMI distribution replaced by a triple
LayoutBodies(period) ==
  { [ FileBody(period) EXCEPT
        !.timeInRange = [ belowRange |-> t[1], inRange |-> t[2], aboveRange |-> t[3] ] ] :
      t \in PctTriples }
  \cup
  { [ FileBody(period) EXCEPT
        !.gmi.distribution = [ optimal |-> t[1], suboptimal |-> t[2], poor |-> t[3] ] ] :
      t \in PctTriples }

LayoutOutcomes(period) ==
  HttpOutcomes(period) \cup { [ kind |-> "next", value |-> b ] : b \in LayoutBodies(period) }

\* a page with every canvas mounted, and the initial load only
InitLayout ==
  /\ phase = "constructed"
  /\ selectedPeriod = 30
  /\ clinicData = InitialClinicData
  /\ dataLoad = 0
  /\ charts = << >>
  /\ made = << >>
  /\ requests = {}
  /\ timers = << >>
  /\ surfaces = Canvases
  /\ budget = 1
  /\ loads = 0
  /\ deliveries = << >>
  /\ lastDelivery = NoDelivery
  /\ errorCalls = 0
  /\ uncaught = FALSE
  /\ exportJobs = << >>
  /\ drawn = NoDraw

NextLayout ==
  \/ ngOnInit
  \/ \E r \in requests : \E o \in LayoutOutcomes(r.period) : Response(r, o)
  \/ TimerFires
  \/ \E h \in DOMAIN made, k \in 0..MaxAreaUnits : DrawVertical(h, k)
  \/ \E h \in DOMAIN made, k \in 0..MaxAreaUnits : DrawVerticalLegacy(h, k)
  \/ \E h \in DOMAIN made, k \in 0..MaxAreaUnits : DrawScale(h, k)
  \/ \E h \in DOMAIN made, k \in 0..MaxAreaUnits : DrawPie(h, k)

SpecLayout == InitLayout /\ [][NextLayout]_vars

(* ------------------------------ claims --------------------------------- *)
\* every request answered, every timeout fired, at least one period switch made
Quiescent == phase = "live" /\ requests = {} /\ timers = << >> /\ loads >= 2

\* a notification reached a subscriber in this step
Delivered ==
  \/ Len(deliveries') > Len(deliveries) /\ deliveries'[Len(deliveries')] = 1
  \/ \E l \in DOMAIN deliveries : deliveries'[l] > deliveries[l]

ZeroFilled(d) ==
  /\ d.patientCount = 0
  /\ d.timeInRange.inRange = 0 /\ d.timeInRange.aboveRange = 0 /\ d.timeInRange.belowRange = 0
  /\ d.gmi.average = 0
  /\ d.gmi.distribution.optimal = 0 /\ d.gmi.distribution.suboptimal = 0
  /\ d.gmi.distribution.poor = 0

ExpectedLabel(period) ==
  CASE period = 30 -> "30 days" [] period = 60 -> "60 days"
    [] period = 90 -> "90 days" [] period = 45 -> "45 days"

\* C1: after a period switch, once every response has arrived and every timeout
\* has fired, charts holds exactly one handle per canvas present and every handle
\* was built by the timeout of the latest response.
C1_HandlesMatchSurfaces ==
  Quiescent =>
    /\ Len(charts) = Cardinality(surfaces)
    /\ \A i \in 1..Len(charts) : charts[i][1] = dataLoad

\* C2: no canvas ever has more than one undestroyed chart bound to it.
C2_OneLiveChartPerSurface ==
  \A c \in Canvases : Cardinality({ h \in Live(made) : made[h].canvas = c }) <= 1

\* C3: once ngOnDestroy has run, no undestroyed chart exists, whatever was
\* pending at the time of the teardown.
C3_NoLiveChartAfterTeardown ==
  phase = "destroyed" => Live(made) = {}

\* C4: the step that hands a snapshot to the next callback destroys every held
\* chart, empties the list, builds no chart and sets one timeout; a chart is built
\* only by a step that fires a timeout and delivers nothing.
C4_TeardownThenDeferredBuild ==
  [][ /\ Delivered =>
           /\ charts' = << >>
           /\ Range(charts) \cap Live(made') = {}
           /\ DOMAIN made' = DOMAIN made
           /\ timers' = Append(timers, lastDelivery'.load)
      /\ DOMAIN made' # DOMAIN made =>
           /\ ~Delivered
           /\ timers # << >>
           /\ timers' = Tail(timers) ]_vars

\* a response has just arrived while charts were held: they are all destroyed,
\* the list is empty and the rebuild is still pending
C4_Witness ==
  /\ \E h \in DOMAIN made : h[1] < lastDelivery.load /\ made[h].destroys = 1
  /\ charts = << >>
  /\ Live(made) = {}
  /\ timers = << lastDelivery.load >>

C6_SelectionCancelsNothing ==
  [][ loads' = loads + 1 => requests \subseteq requests' ]_vars

\* select 90, select 60, the response for 60 completes, then the one for 90:
\* the snapshot and the charts are those of 90 while selectedPeriod is 60
C6_Witness ==
  /\ phase = "live" /\ requests = {} /\ timers = << >>
  /\ selectedPeriod = 60
  /\ loads = 3 /\ lastDelivery.load = 2 /\ lastDelivery.period = 90
  /\ clinicData = FileBody(90)
  /\ clinicData.reportingPeriod = "90 days"
  /\ Live(made) # {}
  /\ \A h \in Live(made) : made[h].config.dataLoad = 2

\* C7: the error callback is never invoked, a subscriber receives at most one
\* notification, and the notification of a failed fetch is the zero-filled
\* snapshot labelled with the requested period.
C7_FailedFetchYieldsDefault ==
  /\ errorCalls = 0
  /\ \A l \in DOMAIN deliveries : deliveries[l] <= 1
  /\ lastDelivery.fetch = "failed" =>
       /\ lastDelivery.kind = "next"
       /\ lastDelivery.period \in {30, 60, 90}
       /\ deliveries[lastDelivery.load] = 1
       /\ ZeroFilled(lastDelivery.value)
       /\ lastDelivery.value.reportingPeriod = ExpectedLabel(lastDelivery.period)
       /\ clinicData = lastDelivery.value

C7_Witness ==
  /\ lastDelivery.fetch = "failed"
  /\ lastDelivery.period = 60
  /\ clinicData.reportingPeriod = "60 days"
  /\ \E l \in DOMAIN deliveries : l # lastDelivery.load /\ deliveries[l] = 1

\* C8: a load for a period that is no key of fileMap issues no HTTP request and
\* hands the zero-filled snapshot labelled with that period to the subscriber
\* inside the call.
C8_UnknownPeriodNoRequest ==
  [][ (loads' = loads + 1 /\ selectedPeriod' \notin {30, 60, 90}) =>
        /\ requests' = requests
        /\ lastDelivery'.load = loads'
        /\ lastDelivery'.fetch = "none"
        /\ lastDelivery'.kind = "next"
        /\ ZeroFilled(lastDelivery'.value)
        /\ lastDelivery'.value.reportingPeriod = ExpectedLabel(selectedPeriod')
        /\ clinicData' = lastDelivery'.value ]_vars

C8_Witness ==
  /\ lastDelivery.period = 45
  /\ lastDelivery.fetch = "none"
  /\ lastDelivery.load = loads
  /\ requests = {}
  /\ deliveries[loads] = 1
  /\ clinicData.reportingPeriod = "45 days"

\* C9: a deferred initialization appends one chart for each canvas that is
\* present, in the order of initializeCharts, skips the absent ones and raises
\* nothing.
C9_AbsentSurfacesSkipped ==
  [][ Len(timers') < Len(timers) =>
        LET present == SelectSeq(CanvasOrder, LAMBDA c : c \in surfaces)
            built   == [ i \in 1..Len(present) |-> << Head(timers), present[i] >> ]
        IN /\ charts' = charts \o built
           /\ \A i \in 1..Len(built) :
                /\ built[i] \in Live(made')
                /\ made'[built[i]].canvas = present[i]
           /\ ~uncaught' ]_vars

\* the pie canvas is missing, and the chart that follows it in
\* initializeCharts has been built and stored all the same
C9_Witness ==
  /\ "gmiPieChart" \notin surfaces
  /\ "timeInRangeHorizontalScale" \notin surfaces
  /\ charts # << >>
  /\ Len(charts) = Cardinality(surfaces)
  /\ \E i \in 1..Len(charts) : made[charts[i]].canvas = "gmiRanges"
  /\ \E i \in 1..Len(charts) : made[charts[i]].canvas = "timeInRangeVerticalStacked"

\* C10: an export whose primary capture failed ran the fallback, and every
\* finished export ended in a download or in the alert.
C10_ExportNeverSilent ==
  \A i \in DOMAIN exportJobs :
    /\ exportJobs[i].primaryFailed => exportJobs[i].fallbackRan
    /\ exportJobs[i].pc = "done" => exportJobs[i].outcome \in {"download", "alert"}

(* --------------------------- layout claims ----------------------------- *)
\* the fillText calls among a sequence of canvas calls
TextCalls(ops) == SelectSeq(ops, LAMBDA o : o.call = "fillText")

\* every coordinate handed to a canvas call is a finite number
AllFinite(ops) ==
  \A i \in DOMAIN ops : IsFinite(ops[i].x.at) /\ IsFinite(ops[i].y.at)

\* the latest afterDraw was the pie plugin's, on data that sums to 0
ZeroTotalPie ==
  drawn.plugin = "pie" /\ drawn.data[1] + drawn.data[2] + drawn.data[3] = 0

\* C11: a pie afterDraw on data whose sum is 0 makes three labels and hands
\* no NaN to any canvas call, connector start and elbow included
C11_ZeroTotalPieDrawsNoNaN ==
  ZeroTotalPie => Len(TextCalls(drawn.ops)) = 3 /\ AllFinite(drawn.ops)

\* the latest afterDraw was that of the vertical stacked chart, in either copy
\* of the component
VerticalDrawn == drawn.plugin \in {"vertical", "verticalLegacy"}

\* the draw area of the latest afterDraw
DrawArea == Geometry(drawn.geometry).chartArea

\* the labels of the vertical stack, bottom segment first
StackLabels == << "2%", "82%", "15%", "1%" >>

\* value / 100 x draw-area height, for the i-th value the latest draw read
SpanHeight(i) == Times(Frac(drawn.data[i], 100), DrawArea.height)

\* the heights stacked below segment i
SpanBase(i) ==
  IF i = 1 THEN Num(0)
  ELSE IF i = 2 THEN SpanHeight(1)
  ELSE Plus(SpanHeight(1), SpanHeight(2))

\* the y the latest draw gave to the label with this text
TextY(text) ==
  SelectSeq(drawn.ops, LAMBDA o : o.call = "fillText" /\ o.text = text)[1].y.at

\* how far above the bottom of the draw area that label is anchored
OffsetAboveBottom(text) == Minus(DrawArea.bottom, TextY(text))

\* the label of segment i is anchored at the middle of its span
Centred(i) ==
  OffsetAboveBottom(StackLabels[i]) = Plus(SpanBase(i), Over(SpanHeight(i), Num(2)))

\* C12 as stated: the labels of belowRange, inRange and aboveRange are each
\* anchored at the sum of the heights below plus half of the own height
C12_EveryLabelCentred == VerticalDrawn => \A i \in 1..3 : Centred(i)

\* the share of the aboveRange height its label is raised by
AboveShare == IF drawn.plugin = "vertical" THEN Frac(3, 10) ELSE Frac(1, 3)

\* C12 amended: the labels of belowRange and inRange are anchored at the
\* middle of their spans; the label of aboveRange is anchored above the two
\* lower spans by 3/10 of its own height (1/3 in the older copy)
C12_LowerLabelsCentredAboveRaisedByShare ==
  VerticalDrawn =>
    /\ Centred(1)
    /\ Centred(2)
    /\ OffsetAboveBottom(StackLabels[3]) =
         Plus(SpanBase(3), Times(SpanHeight(3), AboveShare))

\* a stack of three non-empty segments was drawn on a non-empty area, and the
\* aboveRange label is off the middle of its span
C12_Witness ==
  /\ drawn.plugin = "vertical"
  /\ \A i \in 1..3 : drawn.data[i] > 0
  /\ drawn.geometry > 0
  /\ ~ Centred(3)

\* the three values the latest vertical draw read sum to 100
FullStack == VerticalDrawn /\ drawn.data[1] + drawn.data[2] + drawn.data[3] = 100

\* label a is anchored no higher on the canvas than label b (y grows downward)
NotAbove(a, b) == AtMost(TextY(b), TextY(a))

\* C13: for values that sum to 100 the four label anchors are ordered from
\* the bottom to the top as belowRange, inRange, aboveRange, veryHigh; the
\* aboveRange label is never above the pinned veryHigh label
C13_LabelsOrderedBottomToTop ==
  FullStack => \A i \in 1..3 : NotAbove(StackLabels[i], StackLabels[i + 1])

\* C14: for values that sum to 100 the three pixel heights the vertical
\* afterDraw computes sum to the height of the draw area (exactly, the
\* numbers being exact fractions)
C14_HeightsFillDrawArea ==
  FullStack =>
    Plus(Plus(drawn.heights[1], drawn.heights[2]), drawn.heights[3]) = DrawArea.height

\* three non-empty segments summing to 100 were drawn on a non-empty area
C14_Witness ==
  /\ FullStack
  /\ drawn.geometry = MaxAreaUnits
  /\ \A i \in 1..3 : drawn.data[i] > 0 /\ drawn.heights[i].n > 0

\* the latest vertical draw read belowRange, inRange and aboveRange all 0
EmptyStack == VerticalDrawn /\ \A i \in 1..3 : drawn.data[i] = 0

\* C15 as stated: with all three values 0 every height is 0 and every label,
\* the veryHigh one included, is anchored at the bottom of the draw area
C15_EmptyStackAllLabelsAtBottom ==
  EmptyStack =>
    /\ \A i \in 1..3 : drawn.heights[i] = Num(0)
    /\ \A i \in 1..4 : TextY(StackLabels[i]) = DrawArea.bottom

\* the distance below the top of the draw area the veryHigh label is pinned at
PinnedBelowTop == IF drawn.plugin = "vertical" THEN Num(15) ELSE Num(25)

\* C15 amended: with all three values 0 every height is 0 and the labels of
\* belowRange, inRange and aboveRange are anchored at the bottom of the draw
\* area; the veryHigh label stays pinned 15 px (25 px in the older copy)
\* below the top of the draw area
C15_EmptyStackValueLabelsAtBottom ==
  EmptyStack =>
    /\ \A i \in 1..3 : drawn.heights[i] = Num(0)
    /\ \A i \in 1..3 : TextY(StackLabels[i]) = DrawArea.bottom
    /\ TextY(StackLabels[4]) = Plus(DrawArea.top, PinnedBelowTop)

\* the default snapshot was drawn by the older copy's plugin on a non-empty area
C15_Witness ==
  /\ EmptyStack
  /\ drawn.plugin = "verticalLegacy"
  /\ drawn.geometry > 0
  /\ lastDelivery.fetch = "failed"

\* the latest afterDraw was that of the scale chart
ScaleDrawn == drawn.plugin = "scale"

\* the glucose values the scale is labelled with, left to right
TickValues == << 40, 54, 70, 180, 240, 400 >>

\* the sum of the first n elements of a sequence of numbers
RECURSIVE SumTo(_, _)
SumTo(seq, n) == IF n = 0 THEN 0 ELSE SumTo(seq, n - 1) + seq[n]

\* the i-th tick label of the latest scale draw
Tick(i) == TextCalls(drawn.ops)[i]

PieDrawn == drawn.plugin = "pie"

\* the centre the pie plugin takes: half the canvas width and height
Centre ==
  [ x |-> Over(Geometry(drawn.geometry).width, Num(2)),
    y |-> Over(Geometry(drawn.geometry).height, Num(2)) ]

\* where the three pie labels are drawn, relative to the centre: left, right
\* and lower right
PieAnchors ==
  << [ x |-> Minus(Centre.x, Num(140)), y |-> Minus(Centre.y, Num(15)) ],
     [ x |-> Plus(Centre.x, Num(130)), y |-> Plus(Centre.y, Num(15)) ],
     [ x |-> Plus(Centre.x, Num(110)), y |-> Plus(Centre.y, Num(85)) ] >>

C20_DisplayedPeriodIsSelected ==
  (Quiescent /\ selectedPeriod \in periods) =>
    clinicData.reportingPeriod = PeriodLabel(selectedPeriod)

(* ------------------------- liveness and races -------------------------- *)
\* charts holds an undestroyed chart for every canvas that is present
Covered ==
  \A c \in surfaces :
    \E i \in 1..Len(charts) : made[charts[i]].canvas = c /\ made[charts[i]].destroys = 0

\* every request has been answered and every timeout has fired
Settled == requests = {} /\ timers = << >>

\* C21: once ngOnInit has started the first load, and after any period
\* selection, the component comes to a state where every request is answered,
\* every deferred initialization has run and a chart is held for every canvas
\* present, a failed fetch included
C21_LoadLeadsToCharts == (phase = "live") ~> (Settled /\ Covered /\ errorCalls = 0)

\* all canvases are charted after a period selection whose fetch failed
C21_Witness ==
  /\ Settled
  /\ Covered
  /\ surfaces = Canvases
  /\ loads >= 2
  /\ lastDelivery.fetch = "failed"
  /\ lastDelivery.load = loads

\* C22: every undestroyed chart was configured from the snapshot of the load
\* whose response set the timeout that built it
C22_ChartsOfSchedulingSnapshot ==
  \A h \in Live(made) : made[h].config.dataLoad = h[1]

\* C23: no chart has had destroy() called on it more than once, and charts
\* holds no chart that has been destroyed
C23_NoDoubleDestroyNoDeadHandle ==
  /\ \A h \in DOMAIN made : made[h].destroys <= 1
  /\ \A i \in 1..Len(charts) : made[charts[i]].destroys = 0

\* a value with the fields the create methods and the plugins read
IsSnapshot(d) ==
  /\ DOMAIN d = DOMAIN InitialClinicData
  /\ DOMAIN d.timeInRange = { "belowRange", "inRange", "aboveRange" }
  /\ DOMAIN d.gmi.distribution = { "optimal", "suboptimal", "poor" }

\* C24: the error callback of loadClinicData's subscription has never run,
\* every notification a subscriber received was a next notification carrying
\* a snapshot, and clinicData always holds a snapshot
C24_ErrorCallbackNeverRuns ==
  /\ errorCalls = 0
  /\ lastDelivery.kind \in { "none", "next" }
  /\ lastDelivery.kind = "next" => IsSnapshot(lastDelivery.value)
  /\ IsSnapshot(clinicData)

\* the fetch for period 90 failed and the charts were built from its default
C24_Witness ==
  /\ lastDelivery.fetch = "failed"
  /\ lastDelivery.period = 90
  /\ lastDelivery.kind = "next"
  /\ Settled
  /\ Covered
  /\ surfaces = Canvases

\* the position, among the fillText calls of a vertical afterDraw, of the
\* label of segment i (the older copy draws the aboveRange label third)
StackLabelIndex(i) ==
  IF drawn.plugin = "vertical" THEN << 1, 2, 4 >>[i] ELSE << 1, 2, 3 >>[i]

\* C25: the labels the vertical afterDraw draws for belowRange, inRange and
\* aboveRange read '<value>%' with the value of the snapshot that places them
C25_StackLabelTextFromSnapshot ==
  VerticalDrawn =>
    \A i \in 1..3 :
      TextCalls(drawn.ops)[StackLabelIndex(i)].text = ToString(drawn.data[i]) \o "%"

====
